---- MODULE Spec2Model ----
(***************************************************************************)
(* Hierarchical Risk Parity allocation                                     *)
(* (src/mlfinlab/portfolio_optimization/hrp.py, class                      *)
(* HierarchicalRiskParity).                                                *)
(*                                                                         *)
(* Reading conventions.                                                    *)
(*  - numpy float64 values are modelled as exact extended rationals        *)
(*    <<n, d>>: d > 0 is the reduced fraction n/d, <<1,0>> is +inf,        *)
(*    <<-1,0>> is -inf and <<0,0>> is NaN.  Division by zero follows numpy *)
(*    (x/0 = +-inf, 0/0 = NaN, with a warning and no exception).  Rounding *)
(*    error and the sign of zero are not modelled.                         *)
(*  - numpy arrays are sequences; array index i is position i+1.           *)
(*  - The file binds several values under two names.  The model reads     *)
(*    each pair as one value: cluster_covariance / cov_slice (l.143-147),  *)
(*    self.clusters / clusters (l.80, 84), and, inside                     *)
(*    _recursive_bisection, indices / self.ordered_indices (l.156-157).    *)
(*    np.ones(indices) (l.156, l.92) is read as one entry per asset.       *)
(*    Assignments to the instance fields are kept exactly as written:      *)
(*    allocate stores self.clusters (l.80) and never self.ordered_indices  *)
(*    (l.84 binds a local).                                                *)
(*  - scipy's linkage / to_tree / pre_order are library code: linkage is   *)
(*    any merge matrix Z of the shape scipy returns, the traversal is      *)
(*    scipy's left-then-right pre-order.                                   *)
(***************************************************************************)
EXTENDS Integers, Sequences, FiniteSets, TLC

\* Largest number of assets in one call.
MaxN == 4

\* Raw weights given to build_long_short_portfolio are multiples of 1/MaxUnits.
MaxUnits == 5

-----------------------------------------------------------------------------
(* Extended rational arithmetic (numpy float64, exact).                    *)

Abs(x) == IF x < 0 THEN -x ELSE x

Sgn(x) == IF x < 0 THEN -1 ELSE IF x > 0 THEN 1 ELSE 0

RECURSIVE GCD(_, _)
GCD(a, b) == IF b = 0 THEN a ELSE GCD(b, a % b)

Norm(n, d) ==
    IF d = 0 THEN <<Sgn(n), 0>>
    ELSE LET g == GCD(Abs(n), Abs(d))
             s == IF d < 0 THEN -1 ELSE 1
         IN  <<(s * n) \div g, (s * d) \div g>>

R(x) == <<x, 1>>
Zero == R(0)
One == R(1)
NaN == <<0, 0>>

IsFinite(a) == a[2] # 0

RAdd(a, b) ==
    IF a[2] = 0 /\ b[2] = 0
    THEN (IF a = b THEN a ELSE NaN)
    ELSE Norm(a[1] * b[2] + b[1] * a[2], a[2] * b[2])

RNeg(a) == <<-a[1], a[2]>>
RSub(a, b) == RAdd(a, RNeg(b))
RMul(a, b) == Norm(a[1] * b[1], a[2] * b[2])
RInv(a) == Norm(a[2], a[1])
RDiv(a, b) == RMul(a, RInv(b))

\* a > 0 as numpy compares: false for NaN.
RPos(a) == a[1] > 0

\* np.sum over the entries of array arr at the positions listed in idx.
RECURSIVE SumAt(_, _)
SumAt(arr, idx) ==
    IF idx = <<>> THEN Zero
    ELSE RAdd(arr[Head(idx) + 1], SumAt(arr, Tail(idx)))

Range(s) == {s[k] : k \in 1..Len(s)}

\* The positions 0..n-1 in increasing order.
Iota(n) == [k \in 1..n |-> k - 1]

-----------------------------------------------------------------------------
(* _get_cluster_variance                                                   *)

\* w = 1 / np.diag(cov_slice)
InverseVariance(covariance_matrix, cluster_items) ==
    [k \in 1..Len(cluster_items) |->
        RInv(R(covariance_matrix[cluster_items[k] + 1][cluster_items[k] + 1]))]

\* w /= w.sum()
NormalizedInverseVariance(covariance_matrix, cluster_items) ==
    LET w == InverseVariance(covariance_matrix, cluster_items)
        total == SumAt(w, Iota(Len(w)))
    IN  [k \in 1..Len(w) |-> RDiv(w[k], total)]

\* One row of w . cov_slice . w: sum over j of w[i] * cov[i][j] * w[j].
RECURSIVE QuadRow(_, _, _, _, _)
QuadRow(covariance_matrix, cluster_items, w, i, j) ==
    IF j > Len(cluster_items) THEN Zero
    ELSE RAdd(RMul(RMul(w[i],
                        R(covariance_matrix[cluster_items[i] + 1][cluster_items[j] + 1])),
                   w[j]),
              QuadRow(covariance_matrix, cluster_items, w, i, j + 1))

RECURSIVE QuadForm(_, _, _, _)
QuadForm(covariance_matrix, cluster_items, w, i) ==
    IF i > Len(cluster_items) THEN Zero
    ELSE RAdd(QuadRow(covariance_matrix, cluster_items, w, i, 1),
              QuadForm(covariance_matrix, cluster_items, w, i + 1))

get_cluster_variance(covariance_matrix, cluster_items) ==
    QuadForm(covariance_matrix, cluster_items,
             NormalizedInverseVariance(covariance_matrix, cluster_items), 1)

-----------------------------------------------------------------------------
(* _recursive_bisection: one pass of the while loop                        *)

\* cluster[start:end]
Slice(cluster, start, end) == SubSeq(cluster, start + 1, end)

\* Mutant of SplitBounds: the first element against the rest.
SplitBoundsHeadTail(cluster) ==
    <<  <<0, 1>>, <<1, Len(cluster)>>  >>

\* Mutant of SplitBounds: the left half takes the ceiling share as well.
SplitBoundsOverlap(cluster) ==
    <<  <<0, (Len(cluster) + 1) \div 2>>, <<Len(cluster) \div 2, Len(cluster)>>  >>

\* The two (start, end) pairs of line 162.
SplitBounds(cluster) ==
    <<  <<0, Len(cluster) \div 2>>, <<Len(cluster) \div 2, Len(cluster)>>  >>

\* The list comprehension of lines 160-163.
RECURSIVE Rebuild(_)
Rebuild(clustered) ==
    IF clustered = <<>> THEN <<>>
    ELSE LET cluster == Head(clustered)
             b == SplitBounds(cluster)
         IN  (IF Len(cluster) > 1
              THEN << Slice(cluster, b[1][1], b[1][2]), Slice(cluster, b[2][1], b[2][2]) >>
              ELSE <<>>)
             \o Rebuild(Tail(clustered))

\* alloc_factor of line 172.
AllocFactor(left_cluster_variance, right_cluster_variance) ==
    RSub(One, RDiv(left_cluster_variance,
                   RAdd(left_cluster_variance, right_cluster_variance)))

\* Mutant of RightFactor: the right cluster gets the left cluster's factor.
RightFactorSame(alloc_factor) == alloc_factor

\* The factor the right cluster is multiplied by (line 176).
RightFactor(alloc_factor) == RSub(One, alloc_factor)

\* w[cluster] *= factor
Scale(w, cluster, factor) ==
    [k \in 1..Len(w) |-> IF (k - 1) \in Range(cluster) THEN RMul(w[k], factor) ELSE w[k]]

\* What one pass of the for loop computes for the pair at subcluster.
PairRecord(cov, clustered, subcluster) ==
    LET left_cluster == clustered[subcluster + 1]
        right_cluster == clustered[subcluster + 2]
        lv == get_cluster_variance(cov, left_cluster)
        rv == get_cluster_variance(cov, right_cluster)
    IN  [left |-> left_cluster, right |-> right_cluster,
         left_variance |-> lv, right_variance |-> rv,
         alloc_factor |-> AllocFactor(lv, rv)]

\* The pairs the for loop of lines 165-172 visits, in order.
PairLog(cov, clustered) ==
    [k \in 1..(Len(clustered) \div 2) |-> PairRecord(cov, clustered, 2 * (k - 1))]

\* Lines 175-176 for the pairs of log from the k-th on.
RECURSIVE ProcessPairs(_, _, _)
ProcessPairs(w, log, k) ==
    IF k > Len(log) THEN w
    ELSE ProcessPairs(Scale(Scale(w, log[k].left, log[k].alloc_factor),
                            log[k].right, RightFactor(log[k].alloc_factor)),
                      log, k + 1)

-----------------------------------------------------------------------------
(* build_long_short_portfolio                                              *)

\* np.where(side_weights == value): a 1-tuple holding the array of positions.
Where(side_weights, value) ==
    << SelectSeq(Iota(Len(side_weights)), LAMBDA i : side_weights[i + 1] = value) >>

\* w[idx] /= divisor
DivideAt(w, idx, divisor) ==
    [k \in 1..Len(w) |-> IF (k - 1) \in Range(idx) THEN RDiv(w[k], divisor) ELSE w[k]]

\* The condition of line 123: the length of the tuple np.where returned.
HasShorts(short_ptf) == Len(short_ptf) > 0

\* Mutant of ShortFactor: the sign is lost.
ShortFactorUnsigned == <<1, 2>>

\* The factor of line 127.
ShortFactor == <<-1, 2>>

\* The factor of line 131.
BuyFactor == <<1, 2>>

build_long_short_portfolio(w, side) ==
    LET short_ptf == Where(side, -1)
        buy_ptf == Where(side, 1)
    IN  IF HasShorts(short_ptf)
        THEN LET w1 == DivideAt(w, short_ptf[1], SumAt(w, short_ptf[1]))
                 w2 == Scale(w1, short_ptf[1], ShortFactor)
                 w3 == DivideAt(w2, buy_ptf[1], SumAt(w2, buy_ptf[1]))
                 w4 == Scale(w3, buy_ptf[1], BuyFactor)
             IN  w4
        ELSE w

\* HierarchicalRiskParity._build_long_short_portfolio: the method body is its
\* docstring alone, so the call leaves self.weights as it is.
method_build_long_short_portfolio(self_weights, side) == self_weights

-----------------------------------------------------------------------------
(* scipy: linkage, to_tree, pre_order                                      *)

\* Every merge matrix Z linkage can return for the clusters in active: each
\* row <<a, b>> merges two live cluster ids, a < b, into id next.
RECURSIVE Linkages(_, _)
Linkages(active, next) ==
    IF Cardinality(active) <= 1 THEN { <<>> }
    ELSE UNION { { << <<a, b>> >> \o rest :
                     rest \in Linkages((active \ {a, b}) \cup {next}, next + 1) }
                 : <<a, b>> \in {p \in active \X active : p[1] < p[2]} }

\* to_tree(Z).pre_order() from node id: leaves left to right.
RECURSIVE pre_order(_, _, _)
pre_order(Z, n, id) ==
    IF id < n THEN <<id>>
    ELSE pre_order(Z, n, Z[id - n + 1][1]) \o pre_order(Z, n, Z[id - n + 1][2])

\* Mutant of OrderedIndices: the assets stay in their given order.
OrderedIndicesUnsorted(Z) == Iota(Len(Z) + 1)

\* The ordered indices of line 84: the traversal from the root, id 2n-2.
OrderedIndices(Z) ==
    LET n == Len(Z) + 1 IN pre_order(Z, n, 2 * n - 2)

-----------------------------------------------------------------------------
(* Inputs                                                                  *)

\* An asset is a pair <<b, s>>: loading b on one common factor and own
\* variance s.  The covariance of assets i # j is b_i * b_j, the variance of
\* asset i is b_i^2 + s_i; every such matrix is symmetric and positive
\* semi-definite.
AssetKinds == { <<1, 0>>, <<-1, 0>>, <<0, 1>>, <<0, 0>> }

\* The kinds with a positive variance, used for allocate.
PositiveKinds == { <<1, 0>>, <<-1, 0>>, <<0, 1>> }

\* The kinds used where only the ordering matters.
OrderingKinds == { <<1, 0>>, <<0, 1>> }

CovarianceOf(kinds) ==
    [i \in 1..Len(kinds) |->
        [j \in 1..Len(kinds) |->
            IF i = j THEN kinds[i][1] * kinds[i][1] + kinds[i][2]
            ELSE kinds[i][1] * kinds[j][1]]]

Covariances(n) == { CovarianceOf(k) : k \in [1..n -> AssetKinds] }

IndexOrders(n) ==
    { p \in [1..n -> 0..(n - 1)] : \A i, j \in 1..n : p[i] = p[j] => i = j }

SideVectors(n) == [1..n -> {1, -1}]

\* Positive weight vectors of length n, multiples of 1/MaxUnits, summing to 1.
RawWeights(n) ==
    { [k \in 1..n |-> Norm(u[k], MaxUnits)] :
        u \in { v \in [1..n -> 1..MaxUnits] :
                  SumAt([k \in 1..n |-> R(v[k])], Iota(n)) = R(MaxUnits) } }

\* asset_names[i]
AssetName(i) == <<"asset", i>>

\* dict(zip(assets, self.weights))
ZipWeights(w) ==
    [a \in {AssetName(i) : i \in 0..(Len(w) - 1)} |-> w[a[2] + 1]]

\* Python's None, for a field that holds a list or an array otherwise.
None == <<>>

-----------------------------------------------------------------------------
(* The instance and the call in progress                                   *)

VARIABLES
    weights,           \* self.weights
    ordered_indices,   \* self.ordered_indices
    clusters,          \* self.clusters
    pc,                \* "idle", "bisect" (in the while loop), "long_short"
    caller,            \* which entry point started the call in progress
    covariance,        \* argument covariance of _recursive_bisection
    indices,           \* argument indices of _recursive_bisection
    side_weights,      \* argument side_weights of allocate
    clustered_alphas,  \* the worklist of _recursive_bisection
    pairs,             \* the pairs the last pass of the while loop processed
    passes,            \* passes of the while loop so far
    rounds,            \* passes that processed at least one pair
    ls_weights,        \* argument weights of build_long_short_portfolio
    ls_sides,          \* argument side_weights of build_long_short_portfolio
    ls_result          \* what build_long_short_portfolio returned

vars ==
    <<weights, ordered_indices, clusters, pc, caller, covariance, indices,
      side_weights, clustered_alphas, pairs, passes, rounds,
      ls_weights, ls_sides, ls_result>>

fields == <<weights, ordered_indices, clusters>>
frame == <<covariance, indices, side_weights, clustered_alphas, pairs, passes, rounds>>
ls_vars == <<ls_weights, ls_sides, ls_result>>

\* __init__
Init ==
    /\ weights = <<>>
    /\ ordered_indices = None
    /\ clusters = None
    /\ pc = "idle"
    /\ caller = "none"
    /\ covariance = <<>>
    /\ indices = <<>>
    /\ side_weights = None
    /\ clustered_alphas = <<>>
    /\ pairs = <<>>
    /\ passes = 0
    /\ rounds = 0
    /\ ls_weights = <<>>
    /\ ls_sides = <<>>
    /\ ls_result = <<>>

\* A behaviour follows one call on a newly constructed instance.  A call
\* assigns every variable it reads before it reads it, so a later call on the
\* same instance would pass through the same states.
Fresh == pc = "idle" /\ caller = "none"

\* np.ones(indices, dtype=np.float64)
Ones(order) == [k \in 1..Len(order) |-> One]

\* Lines 156-157: the entry of _recursive_bisection.
EnterBisection(cov, order) ==
    /\ covariance' = cov
    /\ indices' = order
    /\ weights' = Ones(order)
    /\ clustered_alphas' = <<order>>
    /\ pairs' = <<>>
    /\ passes' = 0
    /\ rounds' = 0
    /\ pc' = "bisect"

\* allocate, lines 79-88, up to the entry of _recursive_bisection.
Allocate(cov, Z, side) ==
    /\ Fresh
    /\ clusters' = Z
    /\ EnterBisection(cov, OrderedIndices(Z))
    /\ side_weights' = side
    /\ caller' = "allocate"
    /\ UNCHANGED <<ordered_indices, ls_vars>>

\* A call of _recursive_bisection(covariance, indices, assets) on its own.
CallRecursiveBisection(cov, order) ==
    /\ Fresh
    /\ EnterBisection(cov, order)
    /\ caller' = "direct"
    /\ UNCHANGED <<ordered_indices, clusters, side_weights, ls_vars>>

\* One pass of the while loop, lines 159-176.
BisectionPass ==
    /\ pc = "bisect"
    /\ clustered_alphas # <<>>
    /\ LET rebuilt == Rebuild(clustered_alphas)
       IN  /\ clustered_alphas' = rebuilt
           /\ pairs' = PairLog(covariance, rebuilt)
           /\ weights' = ProcessPairs(weights, pairs', 1)
           /\ rounds' = IF rebuilt # <<>> THEN rounds + 1 ELSE rounds
    /\ passes' = passes + 1
    /\ UNCHANGED <<ordered_indices, clusters, pc, caller, covariance, indices,
                   side_weights, ls_vars>>

\* The exit of the while loop and line 179.
BisectionReturn ==
    /\ pc = "bisect"
    /\ clustered_alphas = <<>>
    /\ weights' = ZipWeights(weights)
    /\ pc' = IF caller = "allocate" THEN "long_short" ELSE "idle"
    /\ UNCHANGED <<ordered_indices, clusters, caller, covariance, indices,
                   side_weights, clustered_alphas, pairs, passes, rounds, ls_vars>>

\* allocate, lines 91-93.
AllocateLongShort ==
    /\ pc = "long_short"
    /\ side_weights' = IF side_weights = None THEN [k \in 1..Len(indices) |-> 1]
                       ELSE side_weights
    /\ weights' = method_build_long_short_portfolio(weights, side_weights')
    /\ pc' = "idle"
    /\ UNCHANGED <<ordered_indices, clusters, caller, covariance, indices,
                   clustered_alphas, pairs, passes, rounds, ls_vars>>

\* A call of build_long_short_portfolio(weights, side_weights), lines 114-133.
CallBuildLongShort(w, side) ==
    /\ Fresh
    /\ caller' = "long_short"
    /\ ls_weights' = w
    /\ ls_sides' = side
    /\ ls_result' = build_long_short_portfolio(w, side)
    /\ UNCHANGED <<fields, pc, frame>>

AllocateCall ==
    /\ Fresh
    /\ \E n \in 2..MaxN :
        \E k \in [1..n -> PositiveKinds], Z \in Linkages(0..(n - 1), n),
           side \in SideVectors(n) \cup {None} :
            Allocate(CovarianceOf(k), Z, side)

BisectionCall ==
    /\ Fresh
    /\ \E n \in 1..MaxN :
        \E cov \in Covariances(n), order \in IndexOrders(n) :
            CallRecursiveBisection(cov, order)

LongShortCall ==
    /\ Fresh
    /\ \E n \in 1..MaxN :
        \E w \in RawWeights(n), side \in SideVectors(n) :
            CallBuildLongShort(w, side)

\* allocate with covariances of the kinds in OrderingKinds and the default sides.
OrderingCall ==
    /\ Fresh
    /\ \E n \in 2..MaxN :
        \E k \in [1..n -> OrderingKinds], Z \in Linkages(0..(n - 1), n) :
            Allocate(CovarianceOf(k), Z, None)

Next == AllocateCall \/ BisectionPass \/ BisectionReturn \/ AllocateLongShort

Spec == Init /\ [][Next]_vars

NextBisection == BisectionCall \/ BisectionPass \/ BisectionReturn

SpecBisection == Init /\ [][NextBisection]_vars

NextLongShort == LongShortCall

SpecLongShort == Init /\ [][NextLongShort]_vars

NextOrdering == OrderingCall \/ BisectionPass \/ BisectionReturn \/ AllocateLongShort

SpecOrdering == Init /\ [][NextOrdering]_vars

-----------------------------------------------------------------------------
(* Properties                                                              *)

\* The number of assets of the call in progress.
N == Len(indices)

\* _recursive_bisection, called on its own, has returned.
BisectionReturned == pc = "idle" /\ caller = "direct"

\* allocate has returned.
AllocateReturned == pc = "idle" /\ caller = "allocate"

\* build_long_short_portfolio has returned.
LongShortReturned == caller = "long_short"

\* The weights dict read back as an array in asset order.
DictArray(w, n) == [k \in 1..n |-> w[AssetName(k - 1)]]

\* Every cluster variance the bisection of the worklist computes is positive.
RECURSIVE ClusterVariancesPositive(_, _)
ClusterVariancesPositive(cov, clustered) ==
    IF clustered = <<>> THEN TRUE
    ELSE LET rebuilt == Rebuild(clustered)
         IN  /\ \A k \in 1..Len(rebuilt) : RPos(get_cluster_variance(cov, rebuilt[k]))
             /\ ClusterVariancesPositive(cov, rebuilt)

Half == <<1, 2>>

RECURSIVE CeilLog2(_)
CeilLog2(n) == IF n <= 1 THEN 0 ELSE 1 + CeilLog2((n + 1) \div 2)

C2_AllWeightsPositive ==
    BisectionReturned => \A i \in 0..(N - 1) : RPos(weights[AssetName(i)])

\* C3: with raw weights that are positive and sum to 1 and both sides
\* present, the side -1 entries of the result sum to -1/2, the side +1 entries
\* to +1/2, and each entry is its raw weight divided by its side's raw sum
\* times -1/2 or +1/2.
C3_LongShortHalves ==
    (LongShortReturned /\ Range(ls_sides) = {1, -1}) =>
        LET short == Where(ls_sides, -1)[1]
            buy == Where(ls_sides, 1)[1]
        IN  /\ SumAt(ls_result, short) = <<-1, 2>>
            /\ SumAt(ls_result, buy) = <<1, 2>>
            /\ \A k \in 1..Len(short) :
                 ls_result[short[k] + 1] =
                     RMul(RDiv(ls_weights[short[k] + 1], SumAt(ls_weights, short)), <<-1, 2>>)
            /\ \A k \in 1..Len(buy) :
                 ls_result[buy[k] + 1] =
                     RMul(RDiv(ls_weights[buy[k] + 1], SumAt(ls_weights, buy)), <<1, 2>>)

\* C3 witness: a call with at least three assets, both sides present and
\* unequal raw weights has returned.
C3_Witness ==
    /\ LongShortReturned
    /\ Len(ls_sides) >= 3
    /\ Range(ls_sides) = {1, -1}
    /\ \E i, j \in 1..Len(ls_weights) : ls_weights[i] # ls_weights[j]

\* C4: when one side is empty build_long_short_portfolio returns every
\* weight unchanged.
C4_EmptySideIsNoOp ==
    (LongShortReturned /\ Range(ls_sides) # {1, -1}) => ls_result = ls_weights

\* C5: after allocate returns from a call with both +1 and -1 sides, the
\* stored weights of the -1 assets sum to -1/2 and those of the +1 assets to
\* +1/2.
C5_AllocateAppliesLongShort ==
    (AllocateReturned /\ Range(side_weights) = {1, -1}) =>
        /\ SumAt(DictArray(weights, N), Where(side_weights, -1)[1]) = <<-1, 2>>
        /\ SumAt(DictArray(weights, N), Where(side_weights, 1)[1]) = <<1, 2>>

\* C6: whenever a pair has leftVar + rightVar = 0 the allocation factor is
\* 1/2, both halves are multiplied by 1/2 and the weights stay well defined.
C6_ZeroTotalVarianceGivesHalf ==
    \A k \in 1..Len(pairs) :
        RAdd(pairs[k].left_variance, pairs[k].right_variance) = Zero =>
            /\ pairs[k].alloc_factor = Half
            /\ RightFactor(pairs[k].alloc_factor) = Half
            /\ pc = "bisect" => \A i \in 1..Len(weights) : IsFinite(weights[i])

HalvesOf(old, new) ==
    LET parents == SelectSeq(old, LAMBDA c : Len(c) > 1)
    IN  /\ Len(new) = 2 * Len(parents)
        /\ \A k \in 1..Len(parents) :
             LET L == Len(parents[k])
             IN  /\ new[2 * k - 1] = SubSeq(parents[k], 1, L \div 2)
                 /\ new[2 * k] = SubSeq(parents[k], L \div 2 + 1, L)

PairwiseDisjoint(clustered) ==
    \A a, b \in 1..Len(clustered) :
        a # b => Range(clustered[a]) \cap Range(clustered[b]) = {}

\* Asset i is multiplied by exactly the factor of the one range holding it,
\* and left alone when no range holds it.
OneFactorEach(old_w, new_w, log) ==
    \A i \in 1..Len(old_w) :
        LET hitsL == {k \in 1..Len(log) : (i - 1) \in Range(log[k].left)}
            hitsR == {k \in 1..Len(log) : (i - 1) \in Range(log[k].right)}
        IN  /\ Cardinality(hitsL) + Cardinality(hitsR) <= 1
            /\ \A k \in hitsL : new_w[i] = RMul(old_w[i], log[k].alloc_factor)
            /\ \A k \in hitsR : new_w[i] = RMul(old_w[i], RSub(One, log[k].alloc_factor))
            /\ (hitsL \cup hitsR = {}) => new_w[i] = old_w[i]

C8_AllocateRetainsOrdering ==
    AllocateReturned =>
        /\ clusters # None
        /\ ordered_indices = OrderedIndices(clusters)
        /\ ordered_indices = indices
        /\ DOMAIN weights = {AssetName(i) : i \in 0..(N - 1)}

\* The leaves of the subtree of Z rooted at id.
Leaves(Z, id) == Range(pre_order(Z, Len(Z) + 1, id))

\* The sets of assets that fill a contiguous sub-range of order.
ContiguousSets(order) ==
    { Range(SubSeq(order, a, b)) : a, b \in 1..Len(order) } \ {{}}

\* The leaf sets of the subtrees of Z.
ClusterSets(Z) == { Leaves(Z, id) : id \in 0..(2 * Len(Z)) }

\* C10 as stated: every contiguous sub-range of the pre-order leaf sequence,
\* every half the bisection produces among them, is the leaf set of one
\* subtree of the merge tree.
C10_EveryRangeIsCluster ==
    (caller = "allocate") =>
        /\ ContiguousSets(indices) \subseteq ClusterSets(clusters)
        /\ \A k \in 1..Len(clustered_alphas) :
             Range(clustered_alphas[k]) \in ClusterSets(clusters)

\* C10 amended: the leaf set of every subtree of the merge tree is a
\* contiguous sub-range of the pre-order leaf sequence, which is a
\* permutation of [0..N).
C10_EveryClusterIsRange ==
    (caller = "allocate") =>
        /\ ClusterSets(clusters) \subseteq ContiguousSets(indices)
        /\ Range(indices) = 0..(N - 1)
        /\ Len(indices) = Len(clusters) + 1

\* C10 witness: the worklist holds a half that is the leaf set of no subtree.
C10_Witness ==
    /\ caller = "allocate"
    /\ pc = "bisect"
    /\ \E k \in 1..Len(clustered_alphas) :
         Range(clustered_alphas[k]) \notin ClusterSets(clusters)

====
